---- MODULE Spec2Model ----
(***************************************************************************)
(* Obstacle announcement pipeline of the AR guide: the useObjectDetection  *)
(* hook (geometry, prioritizer, announcement throttle, detection cycle     *)
(* controller) driven by the page's start/stop calls, the browser's        *)
(* interval timer, the asynchronous classifier and the isSpeaking prop;    *)
(* the useSpeech hook with the browser's speech engine behind it; and the  *)
(* page's effect that speaks what the detection hook publishes.            *)
(*                                                                         *)
(* Time is in milliseconds, as Date.now() gives it.  Distances are in      *)
(* tenths of a metre (the code rounds to one decimal).  An announcement    *)
(* string is the tuple of the template's parts, so two announcements are   *)
(* equal exactly when the strings are; the empty string is << >>.          *)
(***************************************************************************)
EXTENDS Integers, Sequences, FiniteSets, TLC

\* ------------------------------------------------------------- bounds
\* Date.now() when the hook is constructed (any value > 6000 would do).
Epoch == 10000
\* The clock stops at Epoch + Horizon.
Horizon == 8000
\* Granularity of the clock when candidates are offered directly (ThrottleSpec).
Unit == 100
\* Granularity of the clock under the interval timer (Spec) and under the
\* timers of the speech hook (SpeechSpec, PageSpec).
Quantum == 500
\* Classifier calls that may be in flight at once.
MaxPending == 2
\* Interval timers the browser may hold at once.
MaxIntervals == 2

\* -------------------------------------------------- program constants
\* setInterval(..., 1000)
Period == 1000
\* now - lastAnnouncementTimeRef.current > 4000
ThrottleMs == 4000
\* now - lastAnnouncementTimeRef.current > 6000
ClearMs == 6000

VARIABLES
    now,                      \* Date.now()
    isSpeaking,               \* the isSpeaking prop of the latest render
    detections,               \* useState<string[]>([])
    isModelLoading,           \* useState(true)
    error,                    \* useState<string | null>(null)
    modelRef,                 \* useRef<cocoSsd.ObjectDetection | null>(null)
    detectionIntervalRef,     \* useRef<NodeJS.Timeout | null>(null)
    lastAnnouncementTimeRef,  \* useRef<number>(0)
    lastDetectionRef,         \* useRef<string>("")
    intervals,                \* the browser's active interval timers
    pending,                  \* model.detect() promises not yet settled
    ev,                       \* what the last hook operation did (history)
    lastEmit,                 \* when the throttle last published, -1: never (history)
    run,                      \* the current series of clear-path offers (history)
    probe,                    \* a pure function of the hook put to one input, and its result
    speech                    \* the state of the useSpeech hook and of the speech engine

vars == <<now, isSpeaking, detections, isModelLoading, error, modelRef,
          detectionIntervalRef, lastAnnouncementTimeRef, lastDetectionRef,
          intervals, pending, ev, lastEmit, run, probe, speech>>

\* null, for refs and state that hold null
Null == 0

\* ------------------------------------------------- Geometry Estimator

\* NaN, as estimateDistance can return it (0 / 0)
NaN == -1

\* expectedHeights[objectClass] || 1.0, in tenths of a metre
ExpectedHeight(objectClass) ==
    CASE objectClass = "person" -> 17
      [] objectClass = "car" -> 15
      [] objectClass = "truck" -> 25
      [] objectClass = "motorcycle" -> 12
      [] objectClass = "bus" -> 30
      [] objectClass = "dog" -> 6
      [] objectClass = "cat" -> 3
      [] objectClass = "bicycle" -> 10
      [] objectClass = "chair" -> 8
      [] objectClass = "door" -> 20
      [] objectClass = "tree" -> 50
      [] objectClass = "pole" -> 3
      [] objectClass = "traffic_cone" -> 7
      [] objectClass = "bench" -> 5
      [] objectClass = "wall" -> 20
      [] OTHER -> 10

\* num / den rounded to the nearest integer, as toFixed rounds (den > 0, num >= 0)
RoundDiv(num, den) == (2 * num + den) \div (2 * den)

\* estimateDistance: the pinhole model.  focalLength = videoWidth / (2 tan 30 deg)
\* = videoWidth * 0.8660; distance = expectedHeight * focalLength / height,
\* rounded to one decimal and clamped to [0.3, 20].  A zero height divides by
\* zero: Infinity (clamped to 20) or, with a zero numerator, NaN.
estimateDistance(bbox, videoWidth, objectClass) ==
    LET height == bbox[4]
        numer  == ExpectedHeight(objectClass) * videoWidth * 8660
    IN  IF height = 0
        THEN IF numer = 0 THEN NaN ELSE 200
        ELSE LET d == RoundDiv(numer, height * 10000)
             IN  IF d < 3 THEN 3 ELSE IF d > 200 THEN 200 ELSE d

\* a < b on numbers that may be NaN (every comparison with NaN is false)
NumLess(a, b) == a # NaN /\ b # NaN /\ a < b

\* getPosition with the two boundary values given to the sides (<= for <, >= for >)
getPositionInclusive(bbox, videoWidth) ==
    LET twiceCenter == 2 * bbox[1] + bbox[3]
    IN  IF videoWidth = 0
        THEN IF twiceCenter > 0 THEN "right" ELSE IF twiceCenter < 0 THEN "left" ELSE "center"
        ELSE IF 100 * twiceCenter <= 66 * videoWidth THEN "left"
        ELSE IF 100 * twiceCenter >= 134 * videoWidth THEN "right"
        ELSE "center"

\* getPosition: (x + width / 2) / videoWidth against 0.33 and 0.67.
\* A zero videoWidth gives Infinity (right) or NaN (center).
getPosition(bbox, videoWidth) ==
    LET twiceCenter == 2 * bbox[1] + bbox[3]
    IN  IF videoWidth = 0
        THEN IF twiceCenter > 0 THEN "right" ELSE IF twiceCenter < 0 THEN "left" ELSE "center"
        ELSE IF 100 * twiceCenter < 66 * videoWidth THEN "left"
        ELSE IF 100 * twiceCenter > 134 * videoWidth THEN "right"
        ELSE "center"

\* ------------------------------------------------ Scene Surface Analyzer
\* A video is [videoWidth, videoHeight, canvas, pattern]: `canvas` tells how the
\* canvas calls end ("ok", "noContext": getContext returns null, "drawThrows":
\* drawImage throws, "tainted": getImageData throws) and `pattern` gives the
\* frame's pixels, all gray (r = g = b) and opaque.
\* The loops of detectWall start at centerY - regionSize / 2 and
\* centerX - regionSize / 2, which need not be whole numbers: coordinates are
\* kept in sixths of a pixel (x6 = 6 * x), and the index into imageData.data
\* in sixths (idx6 = 6 * idx).  Brightness is kept as the sum r + g + b, three
\* times the code's (r + g + b) / 3, and the thresholds are scaled to match.

Min(a, b) == IF a < b THEN a ELSE b
Max(a, b) == IF a > b THEN a ELSE b
Abs(a) == IF a < 0 THEN -a ELSE a

\* the gray level of pixel (x, y) of the frame
Luma(video, x, y) ==
    LET pattern == video.pattern
        width == video.videoWidth
        side == Min(video.videoWidth, video.videoHeight)
    IN  CASE pattern.kind = "uniform" -> pattern.level
          [] pattern.kind = "checker" ->
               IF ((x \div pattern.cell) + (y \div pattern.cell)) % 2 = 0
               THEN pattern.dark ELSE pattern.bright
          \* three vertical bands that split the analysis region in thirds
          [] pattern.kind = "regionThirds" ->
               IF 3 * (6 * x - (3 * width - side)) < 2 * side THEN pattern.left
               ELSE IF 3 * (6 * x - (3 * width - side)) < 4 * side THEN pattern.center
               ELSE pattern.right
          \* three vertical bands that split the whole frame in thirds
          [] OTHER ->
               IF 3 * x < width THEN pattern.left
               ELSE IF 3 * x < 2 * width THEN pattern.center
               ELSE pattern.right

\* data[idx]: undefined (told as NaN) unless idx is a whole number inside the
\* buffer; the channels of pixel p are data[4p .. 4p + 3], alpha being 255
DataAt(video, idx6) ==
    IF idx6 % 6 # 0 \/ idx6 < 0 \/ idx6 >= 6 * 4 * video.videoWidth * video.videoHeight
    THEN NaN
    ELSE LET idx == idx6 \div 6
             pixel == idx \div 4
         IN  IF idx % 4 = 3 THEN 255
             ELSE Luma(video, pixel % video.videoWidth, pixel \div video.videoWidth)

\* data[idx] + data[idx + 1] + data[idx + 2]
BrightnessAt(video, idx6) ==
    LET r == DataAt(video, idx6)
        g == DataAt(video, idx6 + 6)
        b == DataAt(video, idx6 + 12)
    IN  IF r = NaN \/ g = NaN \/ b = NaN THEN NaN ELSE r + g + b

\* (y * canvas.width + x) * 4
IndexOf(video, point) == 4 * (point[2] * video.videoWidth + point[1])

\* the values the loop variable takes: from max(0, center - regionSize / 2), by
\* one, while below min(size, center + regionSize / 2)
LoopRange(size, side) ==
    LET from == Max(0, 3 * size - side)
        to == Min(6 * size, 3 * size + side)
    IN  {c \in from..to : c < to /\ (c - from) % 6 = 0}

\* the pixels both loops of detectWall visit, as <<x6, y6>>
Region(video) ==
    LET side == Min(video.videoWidth, video.videoHeight)
    IN  LoopRange(video.videoWidth, side) \X LoopRange(video.videoHeight, side)

\* edgeMagnitude > 30 at a pixel the edge check admits
\* (x > 0 && x < canvas.width - 1 && y > 0 && y < canvas.height - 1)
IsEdge(video, point) ==
    /\ point[1] > 0 /\ point[1] < 6 * (video.videoWidth - 1)
    /\ point[2] > 0 /\ point[2] < 6 * (video.videoHeight - 1)
    /\ LET idx6 == IndexOf(video, point)
           leftBrightness == BrightnessAt(video, idx6 - 24)
           rightBrightness == BrightnessAt(video, idx6 + 24)
           topBrightness == BrightnessAt(video, idx6 - 24 * video.videoWidth)
           bottomBrightness == BrightnessAt(video, idx6 + 24 * video.videoWidth)
       IN  /\ leftBrightness # NaN /\ rightBrightness # NaN
           /\ topBrightness # NaN /\ bottomBrightness # NaN
           /\ Abs(leftBrightness - rightBrightness)
                + Abs(topBrightness - bottomBrightness) > 3 * 30

\* the sum of the brightness of the pixels of a set (NaN once one of them is)
RECURSIVE SumBrightness(_, _)
SumBrightness(video, points) ==
    IF points = {} THEN 0
    ELSE LET point == CHOOSE q \in points : TRUE
             rest == SumBrightness(video, points \ {point})
             brightness == BrightnessAt(video, IndexOf(video, point))
         IN  IF rest = NaN \/ brightness = NaN THEN NaN ELSE brightness + rest

\* edgeCount, totalBrightness (three times it) and pixelCount after the first loop
EdgeCount(video) == Cardinality({point \in Region(video) : IsEdge(video, point)})
TotalBrightness(video) == SumBrightness(video, Region(video))
PixelCount(video) == Cardinality(Region(video))

\* WallDistance with the bands of 3.0 m and 3.5 m exchanged
WallDistanceSwapped(total, count) ==
    LET Above(level) == total > 3 * level * count
    IN  IF Above(220) THEN 5 ELSE IF Above(210) THEN 7 ELSE IF Above(200) THEN 10
        ELSE IF Above(190) THEN 13 ELSE IF Above(180) THEN 16 ELSE IF Above(170) THEN 20
        ELSE IF Above(160) THEN 25 ELSE IF Above(150) THEN 35 ELSE IF Above(140) THEN 30
        ELSE IF Above(130) THEN 40 ELSE IF Above(120) THEN 45 ELSE IF Above(110) THEN 50
        ELSE IF Above(100) THEN 55 ELSE 60

\* the distance table: avgBrightness = totalBrightness / pixelCount against the
\* steps 220, 210, ..., 100, in tenths of a metre
WallDistance(total, count) ==
    LET Above(level) == total > 3 * level * count
    IN  IF Above(220) THEN 5 ELSE IF Above(210) THEN 7 ELSE IF Above(200) THEN 10
        ELSE IF Above(190) THEN 13 ELSE IF Above(180) THEN 16 ELSE IF Above(170) THEN 20
        ELSE IF Above(160) THEN 25 ELSE IF Above(150) THEN 30 ELSE IF Above(140) THEN 35
        ELSE IF Above(130) THEN 40 ELSE IF Above(120) THEN 45 ELSE IF Above(110) THEN 50
        ELSE IF Above(100) THEN 55 ELSE 60

\* the pixels of the region the second loop counts as left (x < canvas.width / 3),
\* center (x < canvas.width * 2 / 3) and right
LeftPoints(video) == {point \in Region(video) : point[1] < 2 * video.videoWidth}
CenterPoints(video) ==
    {point \in Region(video) : point[1] >= 2 * video.videoWidth /\ point[1] < 4 * video.videoWidth}
RightPoints(video) == {point \in Region(video) : point[1] >= 4 * video.videoWidth}

\* count || 1
OrOne(count) == IF count = 0 THEN 1 ELSE count

\* position: "left" when leftBrightness exceeds both others, else "right" when
\* rightBrightness does, else "center"; each is its sum over (count || 1), and a
\* / b > c / d is told as a * d > c * b
WallPosition(video) ==
    LET leftBrightness == SumBrightness(video, LeftPoints(video))
        centerBrightness == SumBrightness(video, CenterPoints(video))
        rightBrightness == SumBrightness(video, RightPoints(video))
        leftCount == OrOne(Cardinality(LeftPoints(video)))
        centerCount == OrOne(Cardinality(CenterPoints(video)))
        rightCount == OrOne(Cardinality(RightPoints(video)))
    IN  IF /\ leftBrightness * centerCount > centerBrightness * leftCount
           /\ leftBrightness * rightCount > rightBrightness * leftCount
        THEN "left"
        ELSE IF /\ rightBrightness * centerCount > centerBrightness * rightCount
                /\ rightBrightness * leftCount > leftBrightness * rightCount
        THEN "right"
        ELSE "center"

\* what detectWall returns: null (told as hasWall FALSE) or a wall
NoWall == [hasWall |-> FALSE, distance |-> 0, position |-> "center"]
WallAt(position, distance) == [hasWall |-> TRUE, distance |-> distance, position |-> position]

\* edgeDensity < 0.1 && avgBrightness > 50
IsWall(edgeCount, total, count) ==
    total # NaN /\ 10 * edgeCount < count /\ total > 3 * 50 * count

\* detectWall
detectWall(video) ==
    IF video.videoWidth = 0 \/ video.videoHeight = 0 THEN NoWall
    ELSE IF video.canvas # "ok" THEN NoWall
    ELSE IF PixelCount(video) = 0 THEN NoWall
    ELSE IF IsWall(EdgeCount(video), TotalBrightness(video), PixelCount(video))
    THEN WallAt(WallPosition(video), WallDistance(TotalBrightness(video), PixelCount(video)))
    ELSE NoWall

\* ------------------------------------------------ Obstacle Prioritizer

\* ["car", "truck", "motorcycle", "bus"]
VehicleClasses == {"car", "truck", "motorcycle", "bus"}

\* the obstacle list of detectObjects
ObstacleClasses ==
    {"chair", "couch", "bed", "dining table", "door", "tv", "laptop", "bottle",
     "cup", "backpack", "handbag", "suitcase",
     "umbrella", "sports ball", "baseball bat", "tennis racket", "potted plant",
     "plant", "traffic cone", "bench", "railing", "fence", "pole", "skateboard",
     "bicycle", "motorcycle helmet",
     "dog", "cat", "bird", "teddy bear",
     "kite", "frisbee", "stairs", "step", "ramp", "escalator", "elevator",
     "pillar", "column", "barrier", "gate", "sign", "lamp", "street light",
     "hydrant", "mailbox", "trash can", "dumpster", "wall", "building", "bridge",
     "tunnel", "curb", "manhole", "grate", "bollard", "post", "tree", "bush",
     "rock", "log", "branch", "stick"}

\* predictions.filter((p) => p.class === "person")
People(predictions) == SelectSeq(predictions, LAMBDA p : p.class = "person")
\* predictions.filter((p) => [...].includes(p.class))
Vehicles(predictions) == SelectSeq(predictions, LAMBDA p : p.class \in VehicleClasses)
Obstacles(predictions) == SelectSeq(predictions, LAMBDA p : p.class \in ObstacleClasses)

\* The class the reduce callback hands to estimateDistance for BOTH operands:
\* the literal "person" in the person tier, current.class in the other two.
ReduceClass(tier, closest, current) ==
    IF tier = "person" THEN "person" ELSE current.class

\* list.reduce((closest, current) => currentDist < closestDist ? current : closest)
\* from element i on, with `closest` the accumulator
RECURSIVE ReduceClosest(_, _, _, _, _)
ReduceClosest(list, i, closest, videoWidth, tier) ==
    IF i > Len(list)
    THEN closest
    ELSE LET current == list[i]
             closestDist == estimateDistance(closest.bbox, videoWidth,
                                             ReduceClass(tier, closest, current))
             currentDist == estimateDistance(current.bbox, videoWidth,
                                             ReduceClass(tier, closest, current))
         IN  ReduceClosest(list, i + 1,
                           IF NumLess(currentDist, closestDist) THEN current ELSE closest,
                           videoWidth, tier)

\* reduce without an initial value: the first element starts as the accumulator
Closest(list, videoWidth, tier) == ReduceClosest(list, 2, list[1], videoWidth, tier)

\* "" and "Clear path ahead"
Empty == << >>
ClearPath == <<"Clear path ahead">>

\* `Very close person ${position} about ${distance} meters` when distance < 2,
\* else `Person ${position} about ${distance} meters away`
PersonAnnouncement(p, videoWidth) ==
    LET distance == estimateDistance(p.bbox, videoWidth, "person")
        position == getPosition(p.bbox, videoWidth)
    IN  IF NumLess(distance, 20)
        THEN <<"Very close person", position, "about", distance, "meters">>
        ELSE <<"Person", position, "about", distance, "meters away">>

\* `${closest.class} ${position} about ${distance} meters away`
ObjectAnnouncement(p, videoWidth) ==
    <<p.class, getPosition(p.bbox, videoWidth), "about",
      estimateDistance(p.bbox, videoWidth, p.class), "meters away">>

\* `Wall ${wallDetection.position} about ${wallDetection.distance} meters ahead`
WallAnnouncement(wall) == <<"Wall", wall.position, "about", wall.distance, "meters ahead">>

\* Tier with the obstacle branch placed before the vehicle branch
TierObstacleFirst(in) ==
    IF Len(People(in.predictions)) > 0 THEN "person"
    ELSE IF Len(Obstacles(in.predictions)) > 0 THEN "obstacle"
    ELSE IF Len(Vehicles(in.predictions)) > 0 THEN "vehicle"
    ELSE IF in.wall.hasWall THEN "wall"
    ELSE "clear"

\* The tier detectObjects resolves to: the first non-empty of person, vehicle,
\* obstacle, then the wall detection, then clear.
Tier(in) ==
    IF Len(People(in.predictions)) > 0 THEN "person"
    ELSE IF Len(Vehicles(in.predictions)) > 0 THEN "vehicle"
    ELSE IF Len(Obstacles(in.predictions)) > 0 THEN "obstacle"
    ELSE IF in.wall.hasWall THEN "wall"
    ELSE "clear"

\* Whether detectObjects calls detectWall: only when it has not returned from the
\* person, vehicle or obstacle branch.
WallAnalyzed(in) ==
    /\ Len(People(in.predictions)) = 0
    /\ Len(Vehicles(in.predictions)) = 0
    /\ Len(Obstacles(in.predictions)) = 0

\* closestPerson, closestVehicle or closestObstacle of the branch taken
\* (Null: the wall and clear branches select no detection)
Subject(in) ==
    CASE Tier(in) = "person" -> Closest(People(in.predictions), in.videoWidth, "person")
      [] Tier(in) = "vehicle" -> Closest(Vehicles(in.predictions), in.videoWidth, "vehicle")
      [] Tier(in) = "obstacle" -> Closest(Obstacles(in.predictions), in.videoWidth, "obstacle")
      [] OTHER -> Null

\* The announcement detectObjects builds for the tick's input
Candidate(in) ==
    CASE Tier(in) = "person" ->
           PersonAnnouncement(Closest(People(in.predictions), in.videoWidth, "person"),
                              in.videoWidth)
      [] Tier(in) = "vehicle" ->
           ObjectAnnouncement(Closest(Vehicles(in.predictions), in.videoWidth, "vehicle"),
                              in.videoWidth)
      [] Tier(in) = "obstacle" ->
           ObjectAnnouncement(Closest(Obstacles(in.predictions), in.videoWidth, "obstacle"),
                              in.videoWidth)
      [] Tier(in) = "wall" -> WallAnnouncement(in.wall)
      [] OTHER -> ClearPath

\* ------------------------------------------------------- tick inputs
\* What one tick reads from outside: the frame width, the classifier's
\* predictions and what detectWall finds in the frame (hasWall FALSE: null).
Det(class, x, y, w, h) == [class |-> class, bbox |-> <<x, y, w, h>>]
Input(predictions, wall) == [videoWidth |-> 640, predictions |-> predictions, wall |-> wall]

TickInputs ==
    { Input(<<Det("person", 220, 40, 200, 400)>>, NoWall),
      Input(<<Det("car", 0, 200, 120, 90), Det("person", 220, 40, 200, 400),
              Det("person", 500, 100, 80, 200)>>, WallAt("center", 30)),
      Input(<<Det("car", 0, 200, 120, 90), Det("bus", 400, 100, 200, 300)>>, NoWall),
      Input(<<Det("banana", 10, 10, 50, 50)>>, WallAt("center", 30)),
      Input(<< >>, NoWall),
      Input(<<Det("chair", 500, 300, 100, 150), Det("banana", 10, 10, 50, 50)>>,
            WallAt("center", 30)) }

\* ------------------------------------------------------ history

\* now - lastAnnouncementTimeRef.current, every value above ClearMs told as one
GapCap == ClearMs + 1
Gap == IF now - lastAnnouncementTimeRef > ClearMs THEN GapCap ELSE now - lastAnnouncementTimeRef

\* the time since the throttle last published, told as Gap is; -1: it never did
Since == IF lastEmit < 0 THEN -1
         ELSE IF now - lastEmit > ClearMs THEN GapCap ELSE now - lastEmit

\* The record of the last hook operation: `type` names what it did.
\*  - a consultation of the throttle ("emit", "suppress"): `cand` is the
\*    candidate, `tier` the tier it came from, `repeat` whether it equalled
\*    lastDetectionRef, `gap` the time since lastAnnouncementTimeRef and
\*    `since` the time since the last publication.
\*  - "start": `running` tells whether an interval was held when it was called.
\*  - "stop": `due` is when the interval it cleared would have fired next
\*    (0: it held none).
\* The record lasts for the instant of the operation and reads "elapsed" once
\* time has passed; that of a stop lasts until the next operation.
Event(type) ==
    [type |-> type, cand |-> Empty, tier |-> "none", repeat |-> FALSE, gap |-> 0,
     since |-> 0, running |-> FALSE, due |-> 0]
Offered(type, cand) ==
    [Event(type) EXCEPT !.cand = cand, !.repeat = (cand = lastDetectionRef),
                        !.gap = Gap, !.since = Since]
EventAfterTime == IF ev.type = "stop" THEN ev ELSE Event("elapsed")

\* A series of "Clear path ahead" offers: opened by an emission of it at `start`,
\* continued by each offer of it exactly 500 ms after the one before, ended by
\* anything else.  `len` counts the offers after the first, `emits` the emissions.
NoRun == [start |-> -1, len |-> 0, emits |-> 0]
RunStep == 5 * Unit
RunNext(cand, emitted) ==
    IF cand = ClearPath /\ run.start >= 0 /\ now = run.start + RunStep * (run.len + 1)
    THEN [run EXCEPT !.len = @ + 1, !.emits = @ + (IF emitted THEN 1 ELSE 0)]
    ELSE IF cand = ClearPath /\ emitted
    THEN [start |-> now, len |-> 0, emits |-> 1]
    ELSE NoRun
\* a series whose next offer is overdue at time t has ended
RunAt(t) == IF run.start >= 0 /\ t > run.start + RunStep * (run.len + 1) THEN NoRun ELSE run

\* ------------------------------------------------ Announcement Throttle

\* ShouldAnnounce with the heartbeat already due at exactly 4000 ms (>= for >)
ShouldAnnounceAtLeast(announcement) ==
    announcement # lastDetectionRef \/ now - lastAnnouncementTimeRef >= ThrottleMs

\* ShouldAnnounce with a refresh period of 400 ms in place of 4000 ms
ShouldAnnounceEarly(announcement) ==
    announcement # lastDetectionRef \/ now - lastAnnouncementTimeRef > 400

\* announcement !== lastDetectionRef.current || now - lastAnnouncementTimeRef.current > 4000
ShouldAnnounce(announcement) ==
    announcement # lastDetectionRef \/ now - lastAnnouncementTimeRef > ThrottleMs

\* ShouldAnnounceClear with the hazard tiers' 4000 ms in place of 6000 ms
ShouldAnnounceClearSoon ==
    now - lastAnnouncementTimeRef > ThrottleMs /\ ClearPath # lastDetectionRef

\* now - lastAnnouncementTimeRef.current > 6000, then announcement !== lastDetectionRef.current
ShouldAnnounceClear ==
    now - lastAnnouncementTimeRef > ClearMs /\ ClearPath # lastDetectionRef

\* Announce without the time stamp: lastAnnouncementTimeRef keeps its value
AnnounceUnstamped(announcement) ==
    /\ detections' = <<announcement>>
    /\ lastDetectionRef' = announcement
    /\ lastAnnouncementTimeRef' = lastAnnouncementTimeRef

\* Announce with the announcement added to the published list, not replacing it
AnnounceAppended(announcement) ==
    /\ detections' = Append(detections, announcement)
    /\ lastDetectionRef' = announcement
    /\ lastAnnouncementTimeRef' = now

\* setDetections([announcement]); lastDetectionRef.current = announcement;
\* lastAnnouncementTimeRef.current = now
Announce(announcement) ==
    /\ detections' = <<announcement>>
    /\ lastDetectionRef' = announcement
    /\ lastAnnouncementTimeRef' = now

\* Suppress with the time stamp taken outside the `if`: every consultation stamps
SuppressStamped ==
    /\ lastAnnouncementTimeRef' = now
    /\ UNCHANGED <<detections, lastDetectionRef>>

\* the throttle's `if` is not taken: nothing is assigned before the `return`
Suppress == UNCHANGED <<detections, lastDetectionRef, lastAnnouncementTimeRef>>

\* detectObjects after `await model.detect(video)` has resolved with the
\* predictions of `in`: build the candidate of the first non-empty tier and
\* put it to the throttle.
ProcessPredictions(in) ==
    LET announcement == Candidate(in)
        emit == IF announcement = ClearPath
                THEN ShouldAnnounceClear
                ELSE ShouldAnnounce(announcement)
    IN  /\ IF emit
           THEN Announce(announcement)
           ELSE Suppress
        /\ ev' = [Offered(IF emit THEN "emit" ELSE "suppress", announcement)
                    EXCEPT !.tier = Tier(in)]
        /\ lastEmit' = IF emit THEN now ELSE lastEmit
        /\ run' = RunNext(announcement, emit)

\* ------------------------------------------------- Speech (use-speech.ts)
\* The useSpeech hook and the browser's speech engine behind it.  The hook's
\* isSpeaking state is the variable isSpeaking; the rest is the record `speech`:
\*   isReady             useState(false)
\*   lastSpokenTextRef   useRef<string>("")
\*   lastSpeakTimeRef    useRef<number>(0)
\*   speakingTimeoutRef  when the safety timeout it holds fires (Null: it holds
\*                       none, or the one it holds has fired or was cleared)
\*   playing             the engine is speaking the utterance of the last
\*                       accepted speak()
\*   stale               the engine has yet to deliver the end or error event of
\*                       an utterance that cancel() removed
\*   call                what the last operation of the hook did; for a call of
\*                       speak(): what it came to, its text, the time since
\*                       lastSpeakTimeRef and whether the text was that of the
\*                       last accepted call (history)
\*   accepted            when the last accepted speak() was made (-1: never),
\*                       its text, and whether stopSpeaking() was called since
\*                       (history)

\* if (timeSinceLastSpeak < 2500) return
MinGapMs == 2500
\* if (text === lastSpokenTextRef.current && timeSinceLastSpeak < 5000) return
SameTextMs == 5000
\* setTimeout(() => setIsSpeaking(false), 5000)
SafetyMs == 5000
\* setTimeout(() => setIsReady(true), 500)
ReadyMs == 500

Call(type) == [type |-> type, text |-> Empty, gap |-> 0, same |-> FALSE]
NeverAccepted == [at |-> -1, text |-> Empty, stopped |-> FALSE]

SpeechConstructed ==
    [isReady |-> FALSE, lastSpokenTextRef |-> Empty, lastSpeakTimeRef |-> 0,
     speakingTimeoutRef |-> Null, playing |-> FALSE, stale |-> FALSE,
     call |-> Call("none"), accepted |-> NeverAccepted]

\* const timeSinceLastSpeak = now - lastSpeakTimeRef.current
timeSinceLastSpeak == now - speech.lastSpeakTimeRef

\* TooFrequent with a window of 250 ms
TooFrequentShort == timeSinceLastSpeak < 250

\* speak, its first gate: prevent speaking too frequently
TooFrequent == timeSinceLastSpeak < MinGapMs

\* speak, its second gate: prevent repeating the same text too soon
SameTooSoon(text) == text = speech.lastSpokenTextRef /\ timeSinceLastSpeak < SameTextMs

\* what speak(text) comes to: the reason it returns early, or "accepted"
SpeakOutcome(text) ==
    IF ~speech.isReady THEN "notReady"
    ELSE IF TooFrequent THEN "tooSoon"
    ELSE IF SameTooSoon(text) THEN "sameText"
    ELSE "accepted"

\* what speechSynthesis.speak(utterance) does: it queues the utterance, or throws
Engines == {"speaks", "throws"}

\* SafetyTimer without the setTimeout: no safety timeout is set
SafetyTimerNone(t) == Null

\* speak, the safety timeout it sets at time t: it fires SafetyMs later
SafetyTimer(t) == t + SafetyMs

\* speechSynthesis.cancel(): the utterance being spoken is removed.  Whether the
\* engine then reports an end or error event for it, which runs the callback
\* that utterance was given, is up to the engine: `reported` tells.
CancelLeavesStale(reported) == speech.stale \/ (speech.playing /\ reported)

\* speak(text) of the hook's latest render, at the current time
speak(text, engine, reported) ==
    LET outcome == SpeakOutcome(text)
        call    == [type |-> IF outcome = "accepted" /\ engine = "throws"
                             THEN "threw" ELSE outcome,
                    text |-> text, gap |-> timeSinceLastSpeak,
                    same |-> (text = speech.accepted.text)]
    IN  IF outcome # "accepted"
        THEN /\ speech' = [speech EXCEPT !.call = call]
             /\ UNCHANGED isSpeaking
        ELSE /\ speech' = [speech EXCEPT
                              !.stale = CancelLeavesStale(reported),
                              !.lastSpokenTextRef = text,
                              !.lastSpeakTimeRef = now,
                              !.speakingTimeoutRef = SafetyTimer(now),
                              !.playing = (engine = "speaks"),
                              !.call = call,
                              !.accepted = [at |-> now, text |-> text, stopped |-> FALSE]]
             /\ isSpeaking' = (engine = "speaks")

\* what the speech hook's operations leave alone: the detection hook
DetectionUnchanged ==
    UNCHANGED <<now, detections, isModelLoading, error, modelRef, detectionIntervalRef,
                lastAnnouncementTimeRef, lastDetectionRef, intervals, pending, ev,
                lastEmit, run, probe>>

\* a caller of the hook calls speak(text)
SpeakCall(text, engine, reported) ==
    /\ speak(text, engine, reported)
    /\ DetectionUnchanged

\* utterance.onend of the utterance being spoken
UtteranceEnds ==
    /\ speech.playing
    /\ isSpeaking' = FALSE
    /\ speech' = [speech EXCEPT !.playing = FALSE, !.call = Call("end")]
    /\ DetectionUnchanged

\* utterance.onerror of the utterance being spoken
UtteranceErrors ==
    /\ speech.playing
    /\ isSpeaking' = FALSE
    /\ speech' = [speech EXCEPT !.playing = FALSE, !.call = Call("error")]
    /\ DetectionUnchanged

\* utterance.onend or utterance.onerror of an utterance cancel() removed
StaleEvent ==
    /\ speech.stale
    /\ isSpeaking' = FALSE
    /\ speech' = [speech EXCEPT !.stale = FALSE, !.call = Call("stale")]
    /\ DetectionUnchanged

\* the safety timeout fires
SafetyTimeout ==
    /\ speech.speakingTimeoutRef # Null
    /\ speech.speakingTimeoutRef <= now
    /\ isSpeaking' = FALSE
    /\ speech' = [speech EXCEPT !.speakingTimeoutRef = Null, !.call = Call("timeout")]
    /\ DetectionUnchanged

\* stopSpeaking
stopSpeaking(reported) ==
    /\ isSpeaking' = FALSE
    /\ speech' = [speech EXCEPT
                     !.stale = CancelLeavesStale(reported),
                     !.playing = FALSE,
                     !.lastSpokenTextRef = Empty,
                     !.speakingTimeoutRef = Null,
                     !.call = Call("stop"),
                     !.accepted = [speech.accepted EXCEPT !.stopped = TRUE]]
    /\ DetectionUnchanged

\* the mount effect: voices are loaded, or the fallback timeout fires
SpeechReady ==
    /\ ~speech.isReady
    /\ speech' = [speech EXCEPT !.isReady = TRUE, !.call = Call("ready")]
    /\ UNCHANGED isSpeaking
    /\ DetectionUnchanged

\* ------------------------------------------- Detection Cycle Controller

\* the hook's state after the first render: the model is loading, nothing runs
Constructed ==
    /\ now = Epoch
    /\ isSpeaking = FALSE
    /\ detections = << >>
    /\ isModelLoading = TRUE
    /\ error = "null"
    /\ modelRef = Null
    /\ detectionIntervalRef = Null
    /\ lastAnnouncementTimeRef = 0
    /\ lastDetectionRef = Empty
    /\ intervals = {}
    /\ pending = 0
    /\ ev = Event("init")
    /\ lastEmit = -1
    /\ run = NoRun
    /\ speech = SpeechConstructed

\* no function is being probed
NoProbe == [fn |-> "none"]

Init == Constructed /\ probe = NoProbe

\* loadModel: cocoSsd.load() resolves
LoadModelOk ==
    /\ isModelLoading
    /\ modelRef' = 1
    /\ isModelLoading' = FALSE
    /\ error' = "null"
    /\ UNCHANGED <<now, isSpeaking, detections, detectionIntervalRef,
                   lastAnnouncementTimeRef, lastDetectionRef, intervals, pending, ev, lastEmit, run, probe, speech>>

\* loadModel: cocoSsd.load() rejects
LoadModelFail ==
    /\ isModelLoading
    /\ error' = "Failed to load detection model"
    /\ isModelLoading' = FALSE
    /\ UNCHANGED <<now, isSpeaking, detections, modelRef, detectionIntervalRef,
                   lastAnnouncementTimeRef, lastDetectionRef, intervals, pending, ev, lastEmit, run, probe, speech>>

\* useSpeech's isSpeaking changes and the page renders again, handing the hook
\* the new value.  The render makes new detectObjects and startDetection
\* callbacks; a running interval keeps calling the detectObjects it was started
\* with.
SetIsSpeaking ==
    /\ isSpeaking' = ~isSpeaking
    /\ UNCHANGED <<now, detections, isModelLoading, error, modelRef, detectionIntervalRef,
                   lastAnnouncementTimeRef, lastDetectionRef, intervals, pending, ev, lastEmit, run, probe, speech>>

\* clearInterval(id)
ClearInterval(timers, id) == {t \in timers : t.id # id}

\* ClearPrevious without the clearInterval: the interval held is left running
ClearPreviousNone == intervals

\* startDetection, its first statement:
\* if (detectionIntervalRef.current) clearInterval(detectionIntervalRef.current)
ClearPrevious ==
    IF detectionIntervalRef # Null
    THEN ClearInterval(intervals, detectionIntervalRef)
    ELSE intervals

\* the id setInterval returns: one no active timer has
NewId(timers) == CHOOSE i \in 1..(MaxIntervals + 1) : \A t \in timers : t.id # i

\* The isSpeaking in the closure of the detectObjects that startDetection hands
\* to setInterval.  The page calls startDetection from its mount effect, which
\* has no dependencies: it is the startDetection of the first render, made with
\* that render's detectObjects, where isSpeaking is its initial useState(false).
StartedIsSpeaking == FALSE

\* startDetection, as the page's mount effect calls it
StartDetection ==
    /\ Cardinality(ClearPrevious) < MaxIntervals
    /\ LET id == NewId(ClearPrevious)
       IN  /\ intervals' = ClearPrevious \cup
                           {[id |-> id, next |-> now + Period, isSpeaking |-> StartedIsSpeaking]}
           /\ detectionIntervalRef' = id
    /\ ev' = [Event("start") EXCEPT !.running = (detectionIntervalRef # Null)]
    /\ UNCHANGED <<now, isSpeaking, detections, isModelLoading, error, modelRef,
                   lastAnnouncementTimeRef, lastDetectionRef, pending, lastEmit, run, probe, speech>>

\* StopCleared without the clearInterval: only the handle is dropped
StopClearedNone == intervals

\* stopDetection, the timers it leaves: the interval is cleared if one is held
StopCleared ==
    IF detectionIntervalRef # Null
    THEN ClearInterval(intervals, detectionIntervalRef)
    ELSE intervals

\* stopDetection, what it leaves in lastAnnouncementTimeRef: it does not touch it
StopTime == lastAnnouncementTimeRef

\* StopText without the reset: lastDetectionRef keeps its value
StopTextKept == lastDetectionRef

\* stopDetection, what it leaves in lastDetectionRef: lastDetectionRef.current = ""
StopText == Empty

\* when the interval detectionIntervalRef holds fires next (0: it holds none)
HeldDue ==
    IF \E t \in intervals : t.id = detectionIntervalRef
    THEN (CHOOSE t \in intervals : t.id = detectionIntervalRef).next
    ELSE 0

\* stopDetection
StopDetection ==
    /\ intervals' = StopCleared
    /\ detectionIntervalRef' = Null
    /\ detections' = << >>
    /\ lastDetectionRef' = StopText
    /\ lastAnnouncementTimeRef' = StopTime
    /\ ev' = [Event("stop") EXCEPT !.due = HeldDue]
    /\ run' = NoRun
    /\ UNCHANGED <<now, isSpeaking, isModelLoading, error, modelRef, pending, lastEmit, probe, speech>>

\* The isSpeaking that detectObjects reads when interval t calls it: the one in
\* the closure of the detectObjects the interval was started with.
TickIsSpeaking(t) == t.isSpeaking

\* The interval timer t is due and calls detectObjects, which runs up to its
\* `await model.detect(video)`: it returns at once when its isSpeaking is set, or
\* when the video or the model is missing or the video not ready; else the
\* classifier call is in flight.  The timer is set again, a period from now.
IntervalFires(t, videoReady) ==
    /\ t.next <= now
    /\ LET detects == ~TickIsSpeaking(t) /\ videoReady /\ modelRef # Null
       IN  /\ detects => pending < MaxPending
           /\ pending' = IF detects THEN pending + 1 ELSE pending
           /\ ev' = Event(IF TickIsSpeaking(t) THEN "skip"
                          ELSE IF detects THEN "detect" ELSE "idle")
    /\ intervals' = (intervals \ {t}) \cup {[t EXCEPT !.next = now + Period]}
    /\ UNCHANGED <<now, isSpeaking, detections, isModelLoading, error, modelRef,
                   detectionIntervalRef, lastAnnouncementTimeRef, lastDetectionRef,
                   lastEmit, run, probe, speech>>

\* A classifier call resolves with the predictions of `in`; the rest of that
\* detectObjects call runs.
DetectResolves(in) ==
    /\ pending > 0
    /\ pending' = pending - 1
    /\ ProcessPredictions(in)
    /\ UNCHANGED <<now, isSpeaking, isModelLoading, error, modelRef,
                   detectionIntervalRef, intervals, probe, speech>>

\* CatchTimers of a catch block that gives up: it clears the interval held
CatchTimersCleared == ClearInterval(intervals, detectionIntervalRef)

\* the catch block of detectObjects, the timers it leaves: it clears none
CatchTimers == intervals

\* A classifier call rejects: the catch block logs and sets the error state.
DetectRejects ==
    /\ pending > 0
    /\ pending' = pending - 1
    /\ error' = "Detection error occurred"
    /\ intervals' = CatchTimers
    /\ ev' = Event("error")
    /\ UNCHANGED <<now, isSpeaking, detections, isModelLoading, modelRef,
                   detectionIntervalRef, lastAnnouncementTimeRef, lastDetectionRef,
                   lastEmit, run, probe, speech>>

\* Time passes by d for the detection hook; a due interval timer fires before
\* more time passes.
TimePasses(d) ==
    /\ now + d <= Epoch + Horizon
    /\ \A t \in intervals : t.next > now
    /\ now' = now + d
    /\ run' = RunAt(now + d)
    /\ ev' = EventAfterTime
    /\ UNCHANGED <<isSpeaking, detections, isModelLoading, error, modelRef,
                   detectionIntervalRef, lastAnnouncementTimeRef, lastDetectionRef,
                   intervals, pending, lastEmit, probe>>

Advance == TimePasses(Quantum) /\ UNCHANGED speech

Next ==
    \/ LoadModelOk
    \/ LoadModelFail
    \/ SetIsSpeaking
    \/ StartDetection
    \/ StopDetection
    \/ \E t \in intervals : \E videoReady \in BOOLEAN : IntervalFires(t, videoReady)
    \/ \E in \in TickInputs : DetectResolves(in)
    \/ DetectRejects
    \/ Advance

Spec == Init /\ [][Next]_vars

\* ------------------------------------------------ the throttle on its own
\* The candidate of `in` is put to the throttle at the current time: the part of
\* detectObjects after the classifier call, at any instant.
Offer(in) ==
    /\ ProcessPredictions(in)
    /\ UNCHANGED <<now, isSpeaking, isModelLoading, error, modelRef,
                   detectionIntervalRef, intervals, pending, probe, speech>>

Pass == TimePasses(Unit) /\ UNCHANGED speech

ThrottleNext ==
    \/ \E in \in TickInputs : Offer(in)
    \/ Pass

ThrottleSpec == Init /\ [][ThrottleNext]_vars

\* ---------------------------------------------- the speech hook on its own
\* the hook's timers that have yet to fire: the safety timeout and, until the
\* hook is ready, the readiness fallback set at mount
SpeechTimers ==
    (IF speech.speakingTimeoutRef # Null THEN {speech.speakingTimeoutRef} ELSE {})
    \cup (IF ~speech.isReady THEN {Epoch + ReadyMs} ELSE {})

\* Time passes for the speech hook, by d or up to the next of its timers if
\* that comes first: a due timer and the event of a cancelled utterance come
\* before more time passes.
SpeechTimePasses(d) ==
    /\ \A due \in SpeechTimers : due > now
    /\ ~speech.stale
    /\ \E step \in 1..d :
          /\ step = d \/ now + step \in SpeechTimers
          /\ \A due \in SpeechTimers : due >= now + step
          /\ TimePasses(step)
    /\ speech' = [speech EXCEPT !.call = Call("elapsed")]

SpeechAdvance == SpeechTimePasses(Quantum)

\* the texts the hook is asked to speak
SpeechTexts == {ClearPath, <<"Person", "center", "about", 24, "meters away">>}

SpeechNext ==
    \/ \E text \in SpeechTexts : \E engine \in Engines : \E reported \in BOOLEAN :
          SpeakCall(text, engine, reported)
    \/ UtteranceEnds
    \/ UtteranceErrors
    \/ StaleEvent
    \/ SafetyTimeout
    \/ \E reported \in BOOLEAN : stopSpeaking(reported)
    \/ SpeechReady
    \/ SpeechAdvance

SpeechSpec == Init /\ [][SpeechNext]_vars

\* ------------------------------------------------ the page (page.tsx)
\* The page joins the two hooks: detections published by useObjectDetection
\* are spoken through useSpeech.  isSpeechEnabled is true throughout and
\* isActive is set before startDetection is called, so both are true whenever a
\* tick publishes.

\* the effect on [detections, isSpeechEnabled, isActive, speak], run after a
\* render in which `detections` is a new array: it speaks the first element
SpeakEffect(engine, reported) ==
    IF detections' = << >>
    THEN UNCHANGED <<isSpeaking, speech>>
    ELSE speak(detections'[1], engine, reported)

\* the mount effect calls startDetection, once
PageStartDetection ==
    /\ detectionIntervalRef = Null
    /\ StartDetection

\* Interval t fires and the tick runs to its end within the instant: the
\* classifier answers at once with the predictions of `in`, the rest of
\* detectObjects runs, and if it published, the page's effect runs.
PageTick(t, videoReady, in, engine, reported) ==
    /\ t.next <= now
    /\ intervals' = (intervals \ {t}) \cup {[t EXCEPT !.next = now + Period]}
    /\ IF ~TickIsSpeaking(t) /\ videoReady /\ modelRef # Null
       THEN /\ ProcessPredictions(in)
            /\ IF ev'.type = "emit"
               THEN SpeakEffect(engine, reported)
               ELSE UNCHANGED <<isSpeaking, speech>>
       ELSE /\ ev' = Event(IF TickIsSpeaking(t) THEN "skip" ELSE "idle")
            /\ UNCHANGED <<detections, lastDetectionRef, lastAnnouncementTimeRef,
                           lastEmit, run, isSpeaking, speech>>
    /\ UNCHANGED <<now, isModelLoading, error, modelRef, detectionIntervalRef,
                   pending, probe>>

\* what the camera shows while the page is watched
PageInputs ==
    { Input(<<Det("person", 220, 40, 200, 400)>>, NoWall),
      Input(<<Det("car", 0, 200, 120, 90), Det("bus", 400, 100, 200, 300)>>, NoWall),
      Input(<< >>, NoWall) }

\* The hook becomes ready within ReadyMs of the mount and the first tick comes
\* Period after it, so the effect finds an empty list when `speak` changes with
\* isReady: SpeechReady is all that happens then.
PageNext ==
    \/ LoadModelOk
    \/ PageStartDetection
    \/ \E t \in intervals : \E videoReady \in BOOLEAN : \E in \in PageInputs :
          \E engine \in Engines : \E reported \in BOOLEAN :
             PageTick(t, videoReady, in, engine, reported)
    \/ UtteranceEnds
    \/ UtteranceErrors
    \/ StaleEvent
    \/ SafetyTimeout
    \/ SpeechReady
    \/ SpeechAdvance

PageSpec == Init /\ [][PageNext]_vars

\* ------------------------------------------------ the functions on their own
\* One function of the hook is put to one input: the input is drawn when the
\* behaviour starts, a step applies the function and keeps the result.

\* bounding boxes [x, y, width, height], frame widths (those of a video that has
\* data: readyState 4) and class labels
MaxPredictions == 3
BoxXs == {0, 13, 47, 55, 120}
BoxWidths == {0, 40}
BoxHeights == {0, 1, 5, 40, 100, 150}
FrameWidths == {100, 320, 640}
Labels == {"person", "car", "bus", "cat", "tree", "banana"}
Boxes ==
    {[kind |-> "box", bbox |-> <<x, 0, w, h>>, videoWidth |-> vw, objectClass |-> c] :
        x \in BoxXs, w \in BoxWidths, h \in BoxHeights, vw \in FrameWidths, c \in Labels}

\* the detections a classifier result is made of
Pool ==
    { Det("person", 220, 40, 200, 400), Det("person", 500, 100, 80, 200),
      Det("car", 0, 200, 120, 100), Det("car", 250, 60, 300, 400),
      Det("bus", 400, 100, 200, 150),
      Det("chair", 500, 300, 100, 150), Det("tree", 0, 0, 200, 400),
      Det("banana", 10, 10, 50, 50) }
RECURSIVE SeqsUpTo(_, _)
SeqsUpTo(S, n) ==
    IF n = 0 THEN {<< >>}
    ELSE LET shorter == SeqsUpTo(S, n - 1)
         IN  shorter \cup {Append(q, e) : q \in shorter, e \in S}
Ticks ==
    {[kind |-> "tick", in |-> Input(predictions, wall)] :
        predictions \in SeqsUpTo(Pool, MaxPredictions),
        wall \in {NoWall, WallAt("center", 30)}}

ProbeInit(args) ==
    /\ Constructed
    /\ probe \in {[fn |-> "none", arg |-> a] : a \in args}

Applied(fn, result) == [fn |-> fn, arg |-> probe.arg, result |-> result]

Unprobed(kind) ==
    /\ probe.fn = "none" /\ probe.arg.kind = kind
    /\ UNCHANGED <<now, isSpeaking, detections, isModelLoading, error, modelRef,
                   detectionIntervalRef, lastAnnouncementTimeRef, lastDetectionRef,
                   intervals, pending, ev, lastEmit, run, speech>>

ProbeEstimateDistance ==
    /\ Unprobed("box")
    /\ probe' = Applied("estimateDistance",
                        estimateDistance(probe.arg.bbox, probe.arg.videoWidth,
                                         probe.arg.objectClass))

ProbeGetPosition ==
    /\ Unprobed("box")
    /\ probe' = Applied("getPosition", getPosition(probe.arg.bbox, probe.arg.videoWidth))

\* the part of detectObjects between the classifier's answer and the throttle
ProbePrioritize ==
    /\ Unprobed("tick")
    /\ probe' = Applied("prioritize",
                        [tier |-> Tier(probe.arg.in), subject |-> Subject(probe.arg.in),
                         candidate |-> Candidate(probe.arg.in),
                         analyzed |-> WallAnalyzed(probe.arg.in)])

\* Videos.  A frame is small, so that every pixel is looked at; its sides are
\* such that the loops of detectWall run over whole pixels (a short side that is
\* a multiple of 6, as 480, 720 and 1080 are) or over coordinates ending in
\* .333 (as with the short sides 400 and 800).
Video(size, canvas, pattern) ==
    [videoWidth |-> size[1], videoHeight |-> size[2], canvas |-> canvas, pattern |-> pattern]
Uniform(level) == [kind |-> "uniform", level |-> level]
Checker(cell, tones) == [kind |-> "checker", cell |-> cell, dark |-> tones[1], bright |-> tones[2]]
Bands(kind, tones) == [kind |-> kind, left |-> tones[1], center |-> tones[2], right |-> tones[3]]

\* the largest value of a channel (Uint8ClampedArray)
MaxLevel == 255
MaxCell == 3
WholeSizes == {<<6, 6>>, <<12, 12>>, <<18, 12>>, <<18, 18>>}
BrokenSizes == {<<10, 10>>, <<13, 7>>}
GrayLevels == {0, 50, 51, 100, 101, 150, 151, 220, 221, MaxLevel}
CheckerTones == {<<0, MaxLevel>>, <<100, 200>>, <<0, 60>>, <<200, MaxLevel>>}
\* bands whose levels differ by less than the edge threshold
BandTones == {140, 150, 160} \X {140, 150, 160} \X {140, 150, 160}
Failures == {"noContext", "drawThrows", "tainted"}
Videos ==
    {[kind |-> "video", video |-> v] : v \in
        {Video(size, "ok", Uniform(level)) :
            size \in WholeSizes \cup BrokenSizes, level \in GrayLevels}
        \cup {Video(size, "ok", Checker(cell, tones)) :
                size \in WholeSizes, cell \in 1..MaxCell, tones \in CheckerTones}
        \cup {Video(size, "ok", Bands(kind, tones)) :
                size \in WholeSizes, kind \in {"regionThirds", "frameThirds"},
                tones \in BandTones}
        \cup {Video(size, canvas, Uniform(150)) : size \in WholeSizes, canvas \in Failures}
        \cup {Video(size, "ok", Uniform(150)) : size \in {<<0, 0>>, <<0, 6>>, <<6, 0>>}}}

\* two frames of one gray level each, the levels taken at and next to every
\* step of the distance table and of the wall test
Gray(level) == Video(<<6, 6>>, "ok", Uniform(level))
TableSteps == {100 + 10 * k : k \in 0..12}
BandLevels == {0, 50, 51, MaxLevel} \cup TableSteps \cup {step + 1 : step \in TableSteps}
GrayPairs ==
    {[kind |-> "grays", darker |-> Gray(b1), brighter |-> Gray(b2)] :
        b1 \in BandLevels, b2 \in BandLevels}

\* detectWall, with what its first loop has counted
ProbeDetectWall ==
    /\ Unprobed("video")
    /\ probe' = Applied("detectWall",
                        [wall |-> detectWall(probe.arg.video),
                         edgeCount |-> EdgeCount(probe.arg.video),
                         totalBrightness |-> TotalBrightness(probe.arg.video),
                         pixelCount |-> PixelCount(probe.arg.video)])

\* detectWall on one frame and on another
ProbeWallDistance ==
    /\ Unprobed("grays")
    /\ probe' = Applied("wallDistance",
                        [darker |-> detectWall(probe.arg.darker),
                         brighter |-> detectWall(probe.arg.brighter)])

SurfaceNext == ProbeDetectWall
SurfaceSpec == ProbeInit(Videos) /\ [][SurfaceNext]_vars

BandNext == ProbeWallDistance
BandSpec == ProbeInit(GrayPairs) /\ [][BandNext]_vars

GeometryNext == ProbeEstimateDistance \/ ProbeGetPosition
GeometrySpec == ProbeInit(Boxes) /\ [][GeometryNext]_vars

PrioritizerNext == ProbePrioritize
PrioritizerSpec == ProbeInit(Ticks) /\ [][PrioritizerNext]_vars

\* ============================================================ claims

\* a step in which an interval timer fired (it called detectObjects)
TickStep == intervals' # intervals /\ ev'.type \in {"skip", "idle", "detect"}

\* C1: while isSpeaking is true every tick of the running timer is skipped (no
\* classifier call is begun), and a tick is skipped for speech only while
\* isSpeaking is true: the tick reads the current flag, not the one of the
\* render startDetection was taken from.
C1_TickReadsCurrentFlag ==
    [][TickStep => /\ isSpeaking => /\ pending' = pending
                                    /\ UNCHANGED <<detections, lastDetectionRef,
                                                   lastAnnouncementTimeRef>>
                   /\ ev'.type = "skip" => isSpeaking]_vars

\* C2: ticks never overlap: at most one tick is between the start of its
\* classifier call and the end of its processing, whatever the latency.
C2_TicksNeverOverlap == pending <= 1

\* C3: once stop() has returned, and until start() is called, a classifier call
\* that resolves publishes nothing and leaves lastDetectionRef and
\* lastAnnouncementTimeRef alone.
C3_NoMutationAfterStop ==
    [][(detectionIntervalRef = Null /\ detectionIntervalRef' = Null /\ ev'.type # "stop")
       => UNCHANGED <<detections, lastDetectionRef, lastAnnouncementTimeRef>>]_vars

\* C4: a candidate other than "Clear path ahead" is emitted if and only if it
\* differs from last_text or more than 4000 ms have passed since last_emit_time;
\* an emission publishes it and stamps the state with it and the time.
C4_HazardThrottle ==
    (ev.type \in {"emit", "suppress"} /\ ev.cand # ClearPath)
    => /\ ev.type = "emit" <=> (~ev.repeat \/ ev.gap > 4000)
       /\ ev.type = "emit" => /\ detections = <<ev.cand>>
                              /\ lastDetectionRef = ev.cand
                              /\ lastAnnouncementTimeRef = now
       /\ ev.type = "suppress" => lastAnnouncementTimeRef = now - ev.gap

\* C4's case: the candidate last emitted is offered again, unchanged, 4100 ms
\* after its emission and is emitted (the refresh heartbeat).
C4_Witness ==
    /\ ev.type = "emit" /\ ev.cand # ClearPath
    /\ ev.repeat /\ ev.gap = 4100 /\ ev.since = 4100

\* C5: "Clear path ahead" emitted at t = 0 and offered again every 500 ms is
\* suppressed at every offer before 6000 ms and has been emitted a second time
\* by the offer at 7000 ms.
C5_ClearHeartbeat ==
    run.start >= 0
    => /\ RunStep * run.len < 6000 => run.emits = 1
       /\ RunStep * run.len >= 7000 => run.emits = 2

\* C6: "Clear path ahead" is emitted only when more than 6000 ms have passed
\* since last_emit_time and last_text is not already "Clear path ahead", and
\* suppressed otherwise; so it is never emitted within 6000 ms of the previous
\* emission of any message.
C6_ClearThrottle ==
    (ev.type \in {"emit", "suppress"} /\ ev.cand = ClearPath)
    => /\ ev.type = "emit" <=> (ev.gap > 6000 /\ ~ev.repeat)
       /\ (ev.type = "emit" /\ ev.since # -1) => ev.since > 6000

\* C6's case: "Clear path ahead" is emitted after an earlier emission of a
\* message (more than 6000 ms after it).
C6_Witness ==
    /\ ev.type = "emit" /\ ev.cand = ClearPath
    /\ ev.since # -1
    /\ detections = <<ClearPath>>

\* C7: stop() resets AnnouncementState to its initial value: after it last_text
\* is empty, last_emit_time is 0 and nothing is published.
C7_StopResetsState ==
    ev.type = "stop"
    => /\ lastDetectionRef = Empty
       /\ lastAnnouncementTimeRef = 0
       /\ detections = << >>

\* C8: while stopped (no interval handle held) no interval timer is active and
\* none fires, so no classifier call is begun; with none in flight nothing is
\* published.
C8_NoTickAfterStop ==
    /\ [](detectionIntervalRef = Null => intervals = {})
    /\ [][(detectionIntervalRef = Null /\ detectionIntervalRef' = Null)
          => /\ ~TickStep
             /\ pending' <= pending
             /\ pending = 0 => detections' \in {detections, << >>}]_vars

\* C8's case: stop() cleared a running interval, no classifier call is in
\* flight, and the time at which that interval would have fired has come.
C8_Witness ==
    /\ ev.type = "stop" /\ ev.due > 0
    /\ now >= ev.due
    /\ pending = 0
    /\ detectionIntervalRef = Null

\* C9: at most one interval timer is active, and it is the one the handle
\* names, whatever start() and stop() calls were made.
C9_OneTimer ==
    /\ Cardinality(intervals) <= 1
    /\ \A t \in intervals : t.id = detectionIntervalRef

\* C9's case: start() was called while an interval was running.
C9_Witness ==
    /\ ev.type = "start" /\ ev.running
    /\ Cardinality(intervals) = 1

\* C10: a classifier failure publishes nothing, leaves lastDetectionRef and
\* lastAnnouncementTimeRef unchanged and leaves the interval timer active: while
\* the handle is held its timer is active whatever failed.
C10_FailureSkipsTick ==
    /\ [](detectionIntervalRef # Null => \E t \in intervals : t.id = detectionIntervalRef)
    /\ [][(ev'.type = "error" /\ pending' < pending)
          => UNCHANGED <<detections, lastDetectionRef, lastAnnouncementTimeRef,
                         intervals, detectionIntervalRef>>]_vars

\* C10's case: after a classifier failure a later tick has called the classifier.
C10_Witness ==
    /\ error = "Detection error occurred"
    /\ ev.type = "detect"
    /\ pending > 0

\* the tiers a candidate can come from
Tiers == {"person", "vehicle", "obstacle", "wall", "clear"}

\* C11: every accepted emission, of whatever tier, publishes the candidate and
\* sets last_text to the candidate and last_emit_time to now in the same step.
C11_EmitStampsState ==
    [][(ev'.type = "emit" /\ ev' # ev)
       => /\ ev'.tier \in Tiers
          /\ detections' = <<ev'.cand>>
          /\ lastDetectionRef' = ev'.cand
          /\ lastAnnouncementTimeRef' = now']_vars

\* C11's case: a wall candidate was emitted where another message had been
\* emitted before: the publication and both fields now carry the new emission.
C11_Witness ==
    /\ ev.type = "emit" /\ ev.tier = "wall"
    /\ ev.since > 0
    /\ detections = <<ev.cand>> /\ lastDetectionRef = ev.cand
    /\ lastAnnouncementTimeRef = now

\* C12: a suppressed candidate leaves last_text, last_emit_time and the published
\* announcement as they were.
C12_SuppressKeepsState ==
    [][ev'.type = "suppress"
       => UNCHANGED <<detections, lastDetectionRef, lastAnnouncementTimeRef>>]_vars

\* C12's case: "Clear path ahead" was suppressed within 6000 ms of the emission of
\* a hazard, which is still the published announcement.
C12_Witness ==
    /\ ev.type = "suppress" /\ ev.tier = "clear"
    /\ ev.since > 0 /\ ev.since <= 6000
    /\ lastDetectionRef # Empty /\ lastDetectionRef # ClearPath
    /\ detections = <<lastDetectionRef>>
    /\ lastAnnouncementTimeRef = now - ev.since

\* the distance the Geometry Estimator gives a detection under its own class label
OwnDistance(p, videoWidth) == estimateDistance(p.bbox, videoWidth, p.class)

\* the first detection of a list that no other is strictly nearer than
FirstNearest(list, videoWidth) ==
    list[CHOOSE i \in 1..Len(list) :
            /\ \A j \in 1..Len(list) :
                  OwnDistance(list[i], videoWidth) <= OwnDistance(list[j], videoWidth)
            /\ \A j \in 1..(i - 1) :
                  OwnDistance(list[j], videoWidth) > OwnDistance(list[i], videoWidth)]

\* the detections of a tier, in the classifier's order
InTier(predictions, tier) ==
    SelectSeq(predictions,
              LAMBDA p : CASE tier = "person" -> p.class = "person"
                           [] tier = "vehicle" -> p.class \in VehicleClasses
                           [] OTHER -> p.class \in ObstacleClasses)

\* C13: within a non-empty person, vehicle or obstacle tier the prioritizer
\* selects the detection whose own estimate_distance (under its own class label)
\* is smallest, the first of them on ties, also when the tier mixes class labels.
C13_NearestInTier ==
    (probe.fn = "prioritize" /\ probe.result.tier \in {"person", "vehicle", "obstacle"})
    => probe.result.subject =
         FirstNearest(InTier(probe.arg.in.predictions, probe.result.tier),
                      probe.arg.in.videoWidth)

\* a detection of the given classes is among the predictions
Has(predictions, classes) == \E i \in 1..Len(predictions) : predictions[i].class \in classes

\* C14: the candidate comes from the first non-empty tier in the order person,
\* vehicle, obstacle, wall, clear, whatever the distances in lower tiers; the wall
\* analyzer is called only when the three detection tiers are empty, and "Clear
\* path ahead" is the candidate only when it also reports no surface.
C14_TierOrder ==
    probe.fn = "prioritize"
    => LET predictions == probe.arg.in.predictions
           surface == probe.arg.in.wall.hasWall
           result == probe.result
           person == Has(predictions, {"person"})
           vehicle == Has(predictions, VehicleClasses)
           obstacle == Has(predictions, ObstacleClasses)
       IN  /\ result.tier = "person" <=> person
           /\ result.tier = "vehicle" <=> (~person /\ vehicle)
           /\ result.tier = "obstacle" <=> (~person /\ ~vehicle /\ obstacle)
           /\ result.tier = "wall" <=> (~person /\ ~vehicle /\ ~obstacle /\ surface)
           /\ result.tier = "clear" <=> (~person /\ ~vehicle /\ ~obstacle /\ ~surface)
           /\ result.tier = "person" <=> result.candidate[1] \in {"Person", "Very close person"}
           /\ result.tier \in {"vehicle", "obstacle"} => result.candidate[1] = result.subject.class
           /\ result.tier = "wall" <=> result.candidate[1] = "Wall"
           /\ result.tier = "clear" <=> result.candidate = ClearPath
           /\ result.analyzed <=> (~person /\ ~vehicle /\ ~obstacle)

\* C14's case: the candidate is a person message although a vehicle among the
\* predictions is nearer than the person selected, and a wall is in the frame.
C14_Witness ==
    /\ probe.fn = "prioritize"
    /\ probe.result.tier = "person"
    /\ probe.result.candidate[1] = "Person"
    /\ probe.arg.in.wall.hasWall
    /\ \E i \in 1..Len(probe.arg.in.predictions) :
          /\ probe.arg.in.predictions[i].class \in VehicleClasses
          /\ OwnDistance(probe.arg.in.predictions[i], probe.arg.in.videoWidth)
               < OwnDistance(probe.result.subject, probe.arg.in.videoWidth)

\* C15: estimate_distance returns a value in [0.3, 20.0] for every bounding box
\* of height > 0, whatever the frame width and class label, and the safe default
\* 1.0 for a box of height 0; it never returns NaN or a value outside the range.
C15_DistanceInRange ==
    probe.fn = "estimateDistance"
    => /\ probe.result # NaN
       /\ probe.result >= 3 /\ probe.result <= 200
       /\ probe.arg.bbox[4] = 0 => probe.result = 10

\* C20: estimate_position returns exactly one of left, center and right for every
\* box and frame width: with c = (x + width / 2) / frame_width, left iff c < 0.33,
\* right iff c > 0.67, center otherwise; c = 0.33 and c = 0.67 are center.
C20_PositionTotal ==
    probe.fn = "getPosition"
    => LET x == probe.arg.bbox[1]
           width == probe.arg.bbox[3]
           frame == probe.arg.videoWidth
           \* c < 0.33 and c > 0.67, both sides multiplied by 200 * frame
           below == 200 * x + 100 * width < 66 * frame
           above == 200 * x + 100 * width > 134 * frame
       IN  /\ probe.result \in {"left", "center", "right"}
           /\ probe.result = "left" <=> below
           /\ probe.result = "right" <=> above
           /\ probe.result = "center" <=> (~below /\ ~above)

\* C20's case: a box whose centre is at exactly 0.33 of the frame width (33 of
\* 100) is center.
C20_Witness ==
    /\ probe.fn = "getPosition"
    /\ probe.arg.videoWidth = 100
    /\ 2 * probe.arg.bbox[1] + probe.arg.bbox[3] = 66
    /\ probe.result = "center"

\* C19: the wall distance is a monotonic step function of mean brightness: of
\* two brightness values b1 < b2 that both give a wall the brighter is no farther;
\* above 220 the distance is 0.5 m, up to 100 it is 6.0 m, and it is always
\* within [0.5, 6.0].
C19_DistanceMonotonic ==
    probe.fn = "wallDistance"
    => LET b1 == probe.arg.darker.pattern.level
           b2 == probe.arg.brighter.pattern.level
           first == probe.result.darker
           second == probe.result.brighter
       IN  /\ first.hasWall <=> b1 > 50
           /\ (first.hasWall /\ second.hasWall /\ b1 < b2) => second.distance <= first.distance
           /\ (first.hasWall /\ b1 > 220) => first.distance = 5
           /\ (first.hasWall /\ b1 <= 100) => first.distance = 60
           /\ first.hasWall => (first.distance >= 5 /\ first.distance <= 60)

\* C19's case: two walls whose brightness values lie in neighbouring bands, one
\* just above the step at 150 and one just below: the brighter one is nearer.
C19_Witness ==
    /\ probe.fn = "wallDistance"
    /\ probe.arg.darker.pattern.level = 150
    /\ probe.arg.brighter.pattern.level = 151
    /\ probe.result.darker = WallAt("center", 35)
    /\ probe.result.brighter = WallAt("center", 30)

\* C16: on a checkerboard of dark and bright cells that fills the analysis
\* region, cells one pixel wide included, the analyzer reports no surface whatever
\* the mean brightness (its edge density being at least 0.10).
C16_CheckerboardNoSurface ==
    (probe.fn = "detectWall" /\ probe.arg.video.pattern.kind = "checker")
    => ~probe.result.wall.hasWall

\* the pixels of the analysis region whose column lies in its k-th third (k = 0, 1, 2)
RegionThird(video, k) ==
    LET side == Min(video.videoWidth, video.videoHeight)
        from == 3 * video.videoWidth - side
    IN  {point \in Region(video) :
            /\ 3 * (point[1] - from) >= 2 * side * k
            /\ 3 * (point[1] - from) < 2 * side * (k + 1)}

\* the mean brightness of one set of pixels exceeds that of another
Brighter(video, points, others) ==
    SumBrightness(video, points) * OrOne(Cardinality(others))
        > SumBrightness(video, others) * OrOne(Cardinality(points))

\* C17: a reported wall is Left when the left third of the analysis region is
\* strictly the brightest of its three vertical thirds, Right when the right third
\* is, and Center otherwise.
C17_PositionByRegionThirds ==
    (probe.fn = "detectWall" /\ probe.result.wall.hasWall)
    => LET video == probe.arg.video
           left == RegionThird(video, 0)
           center == RegionThird(video, 1)
           right == RegionThird(video, 2)
           leftWins == Brighter(video, left, center) /\ Brighter(video, left, right)
           rightWins == Brighter(video, right, center) /\ Brighter(video, right, left)
       IN  probe.result.wall.position =
             (IF leftWins THEN "left" ELSE IF rightWins THEN "right" ELSE "center")

\* C18: a wall is declared if and only if edge_density < 0.10 and mean_brightness
\* > 50 over the centred square region; a uniform gray frame of brightness 150 has
\* edge density 0 and is a wall; an inaccessible pixel buffer or an empty region
\* gives no surface.
C18_WallIffFlatAndBright ==
    probe.fn = "detectWall"
    => LET video == probe.arg.video
           result == probe.result
           readable == video.canvas = "ok" /\ video.videoWidth > 0 /\ video.videoHeight > 0
       IN  /\ ~readable => ~result.wall.hasWall
           /\ (readable /\ result.totalBrightness # NaN)
              => (result.wall.hasWall
                   <=> /\ 10 * result.edgeCount < result.pixelCount
                       /\ result.totalBrightness > 3 * 50 * result.pixelCount)
           /\ (readable /\ video.pattern.kind = "uniform" /\ video.pattern.level = 150)
              => (result.edgeCount = 0 /\ result.wall.hasWall /\ result.wall.distance = 35)

\* C22: in a run without stop(), two consecutive emissions that carry the same
\* text are more than 4000 ms apart: when the text emitted is the one the
\* published list already holds, the emission before it was made more than
\* 4000 ms earlier.
C22_SameTextApart ==
    [][(ev'.type = "emit" /\ ev' # ev /\ detections = <<ev'.cand>>)
       => (lastEmit >= 0 /\ now' - lastEmit > 4000)]_vars

\* C22's case: the text published 4100 ms ago, and still published, is emitted
\* again.
C22_Witness ==
    /\ ev.type = "emit" /\ ev.repeat /\ ev.since = 4100
    /\ detections = <<ev.cand>> /\ lastEmit = now

\* C23: once the model load has failed (no model is present and loading is
\* over), start() creates no interval timer and no tick runs.
C23_NoLoopWithoutModel ==
    [][(modelRef = Null /\ ~isModelLoading)
       => (intervals' \subseteq intervals /\ ~TickStep)]_vars

\* C24: the published detections list holds zero or one string in every
\* reachable state; an emission replaces the list, it does not extend it.
C24_AtMostOnePublished == Len(detections) <= 1

\* C24's case: a second announcement, different from the one before it, has
\* been emitted and is the only element of the list.
C24_Witness ==
    /\ ev.type = "emit" /\ ev.since >= 0 /\ ~ev.repeat
    /\ detections = <<ev.cand>>

\* C25: the published list is empty exactly when last_text is empty and holds
\* exactly last_text otherwise; the published list changes only in an emission
\* or in stop().
C25_PublishedAgrees ==
    /\ [](detections = IF lastDetectionRef = Empty THEN << >> ELSE <<lastDetectionRef>>)
    /\ [][detections' # detections
          => (ev' # ev /\ ev'.type \in {"emit", "stop"})]_vars

\* C25's case: stop() has emptied the list after an announcement was published.
C25_Witness ==
    /\ ev.type = "stop" /\ lastEmit >= 0 /\ ev.due > 0
    /\ detections = << >> /\ lastDetectionRef = Empty

\* the operations of the speech hook that are calls of speak(), by what the
\* call came to, and those among them that returned early
SpeakCalls == {"accepted", "threw", "tooSoon", "sameText", "notReady"}
Rejections == {"tooSoon", "sameText", "notReady"}

\* C26: while the utterance of an accepted speak() is playing, isSpeaking is
\* true: no callback of an utterance cancelled earlier and no safety timeout
\* sets it to false before that utterance ends, fails or is stopped.
C26_SpeakingWhilePlaying == speech.playing => isSpeaking

\* C27: after an accepted speak() isSpeaking becomes false even if the engine
\* never reports end or error: it is true only within 5000 ms of the last
\* accepted speak(), and when the safety timeout fires it is false.
C27_SafetyTimeoutEnds ==
    /\ isSpeaking => (speech.accepted.at >= 0 /\ now - speech.accepted.at <= 5000)
    /\ speech.call.type = "timeout" => ~isSpeaking

\* C27's case: the engine reported nothing for 5000 ms, the utterance is still
\* playing, and the safety timeout has set isSpeaking to false.
C27_Witness ==
    /\ speech.call.type = "timeout" /\ speech.playing
    /\ now = speech.accepted.at + 5000
    /\ ~isSpeaking

\* the time since the last accepted speak() (-1: none was accepted)
SinceAccepted == IF speech.accepted.at < 0 THEN -1 ELSE now - speech.accepted.at

\* a step that is a call of speak()
SpeakStep == speech'.call # speech.call /\ speech'.call.type \in SpeakCalls

\* a rejected call cancels nothing and changes nothing of the hook
RejectionKeepsState ==
    /\ isSpeaking' = isSpeaking
    /\ speech'.lastSpokenTextRef = speech.lastSpokenTextRef
    /\ speech'.lastSpeakTimeRef = speech.lastSpeakTimeRef
    /\ speech'.speakingTimeoutRef = speech.speakingTimeoutRef
    /\ speech'.playing = speech.playing
    /\ speech'.stale = speech.stale

\* C28 as stated: a call of speak() less than 2500 ms after the last accepted
\* one is rejected, and so is a call with the text of the last accepted one
\* less than 5000 ms after it; a rejected call leaves the hook as it was.
C28_RateLimitAsStated ==
    [][SpeakStep
       => LET rejected == speech'.call.type \in Rejections
          IN  /\ (SinceAccepted >= 0 /\ SinceAccepted < 2500) => rejected
              /\ (SinceAccepted >= 0 /\ SinceAccepted < 5000
                    /\ speech'.call.text = speech.accepted.text) => rejected
              /\ rejected => RejectionKeepsState]_vars

\* C28, amended: a call of speak() less than 2500 ms after the last accepted
\* one is rejected; a call with the text of the last accepted one less than
\* 5000 ms after it is rejected unless stopSpeaking() was called in between; a
\* rejected call leaves the hook as it was.  Hence two accepted calls are at
\* least 2500 ms apart, and at least 5000 ms apart when their text is the same
\* and stopSpeaking() was not called in between.
C28_RateLimit ==
    [][SpeakStep
       => LET rejected == speech'.call.type \in Rejections
              sameText == speech'.call.text = speech.accepted.text
                          /\ ~speech.accepted.stopped
          IN  /\ (SinceAccepted >= 0 /\ SinceAccepted < 2500) => rejected
              /\ (SinceAccepted >= 0 /\ SinceAccepted < 5000 /\ sameText) => rejected
              /\ rejected => RejectionKeepsState
              /\ (~rejected /\ SinceAccepted >= 0)
                 => /\ SinceAccepted >= 2500
                    /\ sameText => SinceAccepted >= 5000]_vars

\* C28's case: the text accepted 5000 ms ago, with no stopSpeaking() since, is
\* accepted again.
C28_Witness ==
    /\ speech.call.type = "accepted" /\ speech.call.gap = 5000 /\ speech.call.same
    /\ speech.lastSpokenTextRef = speech.call.text
    /\ ~speech.accepted.stopped /\ speech.accepted.at = now

\* C21: every announcement the throttle emits is handed to speech and started
\* as an utterance: with the speech hook ready, an emission is followed at once
\* by a call of speak() with the emitted text that is not rejected, and (an
\* engine that throws aside) the engine is then speaking it.
C21_EmittedIsSpoken ==
    [][(ev'.type = "emit" /\ ev' # ev /\ speech.isReady)
       => /\ speech'.call.text = ev'.cand
          /\ speech'.call.type \in {"accepted", "threw"}
          /\ speech'.call.type = "accepted" => (speech'.playing /\ isSpeaking')]_vars

====
